---- MODULE Spec2Model ----
(***************************************************************************)
(* A model of nqptp-utilities.c: open_sockets_at_port, debug_print_buffer  *)
(* and get_self_clock_id.  The three functions share no state, so each has *)
(* its own specification over the same variables:                          *)
(*   Spec       open_sockets_at_port, one action per step of its loop      *)
(*   SpecDump   debug_print_buffer, one action per call                    *)
(*   SpecClock  get_self_clock_id, one action per call                     *)
(***************************************************************************)
EXTENDS Integers, Sequences, FiniteSets

VARIABLES
  sockets_open_stuff, \* the caller's sockets_open_bundle
  fds,                \* the kernel's view of the descriptors socket() returned
  sk,                 \* the activation of open_sockets_at_port
  dbg,                \* the last call of debug_print_buffer
  clk                 \* the last call of get_self_clock_id

vars == <<sockets_open_stuff, fds, sk, dbg, clk>>

(***************************************************************************)
(* Bounds of the model.                                                    *)
(***************************************************************************)
MaxEntries == 2   \* addrinfo entries one getaddrinfo call returns
MaxCalls == 2     \* calls of open_sockets_at_port on the one bundle
MaxBufLen == 34   \* buf_len of a debug_print_buffer call
MaxLevel == 2     \* the level argument of debug_print_buffer
MaxIfs == 2       \* interfaces getifaddrs lists

(***************************************************************************)
(* open_sockets_at_port                                                    *)
(***************************************************************************)

\* The capacity of sockets_open_bundle.sockets[].  The header that sets it is
\* not part of the modelled source; any finite capacity behaves alike, and the
\* model takes a small one.
MAX_OPEN_SOCKETS == 3

Families == {"AF_INET", "AF_INET6"}
Ports == {319, 320}
Unset == [number |-> -1, port |-> 0]

\* What getaddrinfo may return: a list of entries, one family each.
AddrInfoLists == UNION {[1..n -> Families] : n \in 0..MaxEntries}

\* The return values of the OS calls made for one addrinfo entry.  A call the
\* code does not make has the value of success.
SysOutcomes ==
  [socket : BOOLEAN, v6only : {0, -1}, bind : {0, -1}, timestamping : {0, -1},
   getfl : BOOLEAN, setfl : BOOLEAN]

\* ret |= x, for ret and x in {0, -1}
OrRet(ret, x) == IF ret = 0 /\ x = 0 THEN 0 ELSE -1

\* socket(): the new descriptor, or -1
SocketCall(o) == IF o.socket THEN Len(fds) + 3 ELSE -1

\* #ifdef IPV6_V6ONLY: if (p->ai_family == AF_INET6) ret |= setsockopt(...)
SetV6Only(ret, family, o) ==
  IF family = "AF_INET6" THEN OrRet(ret, o.v6only) ELSE ret

\* if (!ret) ret = bind(...)
BindCall(ret, o) == IF ret = 0 THEN o.bind ELSE ret

SetTimestampingUnguarded(ret, o) == o.timestamping
\* if (ret == 0) ret = setsockopt(fd, SOL_SOCKET, SO_TIMESTAMPING, ...)
SetTimestamping(ret, o) == IF ret = 0 THEN o.timestamping ELSE ret

\* flags = fcntl(fd, F_GETFL); fcntl(fd, F_SETFL, flags | O_NONBLOCK): neither
\* result is tested.  A failed F_GETFL gives -1, every flag bit set, and
\* O_NONBLOCK is or-ed in either way, so the descriptor ends non-blocking
\* exactly when F_SETFL succeeds.
RequestedFlags(o) ==
  (IF o.getfl THEN {"O_RDWR"} ELSE {"all bits"}) \cup {"O_NONBLOCK"}
SetNonBlocking(o) == o.setfl /\ "O_NONBLOCK" \in RequestedFlags(o)

\* The calls the code makes for an entry of this family, given the results so
\* far; the outcomes of the others are fixed.
Canonical(family, o) ==
  LET r1 == SetV6Only(0, family, o)
      r2 == BindCall(r1, o)
  IN  /\ ~o.socket => o.v6only = 0 /\ o.bind = 0 /\ o.timestamping = 0
                       /\ o.getfl /\ o.setfl
      /\ family # "AF_INET6" => o.v6only = 0
      /\ r1 # 0 => o.bind = 0
      /\ r2 # 0 => o.timestamping = 0

\* The descriptor state after the calls of one loop body.
NewFd(family, o) ==
  LET r1 == SetV6Only(0, family, o)
      r2 == BindCall(r1, o)
      r3 == SetTimestamping(r2, o)
  IN  [family |-> family,
       v6only |-> family = "AF_INET6" /\ r1 = 0,
       bound |-> r1 = 0 /\ r2 = 0,
       timestamping |-> r3 = 0 /\ o.timestamping = 0,
       nonblock |-> SetNonBlocking(o),
       port |-> IF r1 = 0 /\ r2 = 0 THEN sk.port ELSE 0]

\* ret as tested at "if (ret)"
FinalRet(family, o) ==
  SetTimestamping(BindCall(SetV6Only(0, family, o), o), o)

\* sockets[sockets_open].number = fd; .port = port; sockets_open++
\* There is no test of sockets_open against the array's size.
AppendRecord(b, fd, port) ==
  IF b.sockets_open < MAX_OPEN_SOCKETS
    THEN [b EXCEPT !.sockets[b.sockets_open] = [number |-> fd, port |-> port],
                   !.sockets_open = @ + 1]
    ELSE [b EXCEPT !.oob = @ \cup {b.sockets_open},
                   !.sockets_open = @ + 1]

SkIdle ==
  [pc |-> "idle", calls |-> 0, port |-> 0, info |-> <<>>, entries |-> 0,
   start |-> 0, attempted |-> 0, created |-> 0, fatal_fd |-> -1]

\* No call of debug_print_buffer yet.
Uninit == "?"
DbgIdle ==
  [called |-> FALSE, char_signed |-> FALSE, level |-> 0, buf |-> <<>>,
   buf_len |-> 0, malloc_ok |-> FALSE,
   obf |-> [size |-> 1, bytes |-> [i \in 0..0 |-> Uninit], oob |-> {}],
   reads |-> {}, log |-> <<>>]
\* No call of get_self_clock_id yet.
ClkIdle ==
  [called |-> FALSE, ifs |-> <<>>, outcome |-> "none", len |-> 0,
   local_clock_id |-> [i \in 0..7 |-> 0], written |-> {}, oob |-> {},
   result |-> <<>>, indeterminate |-> {}]

Init ==
  /\ sockets_open_stuff =
       [sockets_open |-> 0,
        sockets |-> [i \in 0..(MAX_OPEN_SOCKETS - 1) |-> Unset],
        oob |-> {}]
  /\ fds = <<>>
  /\ sk = SkIdle
  /\ dbg = DbgIdle
  /\ clk = ClkIdle

\* Entry: getaddrinfo(NULL, portstr, &hints, &info) succeeds.
\* The model stops calling once a record has been written outside the array.
GetAddrInfo ==
  /\ sk.pc = "idle"
  /\ sk.calls < MaxCalls
  /\ sockets_open_stuff.oob = {}
  /\ \E port \in Ports, info \in AddrInfoLists :
       sk' = [pc |-> "loop", calls |-> sk.calls + 1, port |-> port,
              info |-> info, entries |-> Len(info),
              start |-> sockets_open_stuff.sockets_open,
              attempted |-> 0, created |-> 0, fatal_fd |-> -1]
  /\ UNCHANGED <<sockets_open_stuff, fds, dbg, clk>>

\* Entry: getaddrinfo fails: die("getifaddrs: ...").
GetAddrInfoFails ==
  /\ sk.pc = "idle"
  /\ sk.calls < MaxCalls
  /\ sockets_open_stuff.oob = {}
  /\ \E port \in Ports :
       sk' = [pc |-> "died", calls |-> sk.calls + 1, port |-> port,
              info |-> <<>>, entries |-> 0,
              start |-> sockets_open_stuff.sockets_open,
              attempted |-> 0, created |-> 0, fatal_fd |-> -1]
  /\ UNCHANGED <<sockets_open_stuff, fds, dbg, clk>>

\* One pass of for (p = info; p; p = p->ai_next), socket() failing.
LoopSocketFails ==
  /\ sk.pc = "loop"
  /\ sk.info # <<>>
  /\ \E o \in SysOutcomes :
       /\ Canonical(Head(sk.info), o)
       /\ SocketCall(o) = -1
       /\ sk' = [sk EXCEPT !.info = Tail(@), !.attempted = @ + 1]
  /\ UNCHANGED <<sockets_open_stuff, fds, dbg, clk>>

\* One pass of the loop, socket() succeeding and a later call failing: die().
LoopDie ==
  /\ sk.pc = "loop"
  /\ sk.info # <<>>
  /\ \E o \in SysOutcomes :
       LET family == Head(sk.info)
           fd == SocketCall(o)
       IN  /\ Canonical(family, o)
           /\ fd # -1
           /\ FinalRet(family, o) # 0
           /\ fds' = Append(fds, NewFd(family, o))
           /\ sk' = [sk EXCEPT !.pc = "died", !.attempted = @ + 1,
                               !.created = @ + 1, !.fatal_fd = fd]
  /\ UNCHANGED <<sockets_open_stuff, dbg, clk>>

\* One pass of the loop, every tested call succeeding: the record is appended.
LoopAppend ==
  /\ sk.pc = "loop"
  /\ sk.info # <<>>
  /\ \E o \in SysOutcomes :
       LET family == Head(sk.info)
           fd == SocketCall(o)
       IN  /\ Canonical(family, o)
           /\ fd # -1
           /\ FinalRet(family, o) = 0
           /\ fds' = Append(fds, NewFd(family, o))
           /\ sockets_open_stuff' = AppendRecord(sockets_open_stuff, fd, sk.port)
           /\ sk' = [sk EXCEPT !.info = Tail(@), !.attempted = @ + 1,
                               !.created = @ + 1]
  /\ UNCHANGED <<dbg, clk>>

\* p == NULL: freeaddrinfo(info) and return.
Return ==
  /\ sk.pc = "loop"
  /\ sk.info = <<>>
  /\ sk' = [sk EXCEPT !.pc = "idle"]
  /\ UNCHANGED <<sockets_open_stuff, fds, dbg, clk>>

Next ==
  \/ GetAddrInfo
  \/ GetAddrInfoFails
  \/ LoopSocketFails
  \/ LoopDie
  \/ LoopAppend
  \/ Return

Spec == Init /\ [][Next]_vars

(***************************************************************************)
(* debug_print_buffer                                                      *)
(***************************************************************************)

Bytes == 0..255
Levels == 0..MaxLevel
NUL == "\\0"
HexChars == <<"0", "1", "2", "3", "4", "5", "6", "7",
              "8", "9", "A", "B", "C", "D", "E", "F">>

\* The buffers the model passes: buf[i] = first + 17 i (mod 256), so that every
\* byte value occurs at every index as first ranges over the bytes.
BufferOf(n, first) == [i \in 0..(n - 1) |-> (first + 17 * i) % 256]

\* buf[i] as the int that is passed to snprintf or switched on: char is signed
\* on some builds (x86) and unsigned on others (ARM).
CharToInt(b, char_signed) == IF char_signed /\ b >= 128 THEN b - 256 ELSE b

\* An int read as unsigned int by %X, as its two 16-bit halves <<high, low>>.
AsUnsigned(v) == <<IF v < 0 THEN 65535 ELSE 0, v % 65536>>

RECURSIVE HexDigits(_)
\* the hexadecimal digits of u >= 0, most significant first, no leading zero
HexDigits(u) ==
  IF u < 16 THEN <<HexChars[u + 1]>>
  ELSE Append(HexDigits(u \div 16), HexChars[(u % 16) + 1])

RECURSIVE PadLeft(_, _)
PadLeft(digits, width) ==
  IF Len(digits) >= width THEN digits ELSE PadLeft(<<"0">> \o digits, width)

\* The characters "%02X" produces for the int v.
Format02X(v) ==
  LET u == AsUnsigned(v)
  IN  IF u[1] = 0 THEN PadLeft(HexDigits(u[2]), 2)
      ELSE HexDigits(u[1]) \o PadLeft(HexDigits(u[2]), 4)

\* obf = malloc(buf_len * 4 + 1)
Malloc(buf_len) ==
  [size |-> buf_len * 4 + 1,
   bytes |-> [i \in 0..(buf_len * 4) |-> Uninit],
   oob |-> {}]

\* A one-byte store into the allocation, or outside it.
Store(m, at, c) ==
  IF at \in 0..(m.size - 1) THEN [m EXCEPT !.bytes[at] = c]
  ELSE [m EXCEPT !.oob = @ \cup {at}]

RECURSIVE StoreAll(_, _, _)
StoreAll(m, at, chars) ==
  IF chars = <<>> THEN m
  ELSE StoreAll(Store(m, at, Head(chars)), at + 1, Tail(chars))

\* snprintf(at, size, ...) of the characters str: at most size - 1 of them,
\* then the terminator.
Snprintf(m, at, size, str) ==
  LET k == IF Len(str) < size - 1 THEN Len(str) ELSE size - 1
  IN  StoreAll(m, at, Append(SubSeq(str, 1, k), NUL))

SeparatorNoLastTest(obfc, buf_len) ==
  IF obfc % 32 = 31 THEN [size |-> 5, str |-> <<" ", "|", "|", " ">>, adv |-> 4]
  ELSE IF obfc % 16 = 15 THEN [size |-> 4, str |-> <<" ", "|", " ">>, adv |-> 3]
  ELSE IF obfc % 4 = 3 THEN [size |-> 2, str |-> <<" ">>, adv |-> 1]
  ELSE [size |-> 0, str |-> <<>>, adv |-> 0]
\* The snprintf after the two digits of byte obfc, and the advance of obfp:
\* if (obfc != buf_len - 1) { if (obfc % 32 == 31) ... }
Separator(obfc, buf_len) ==
  IF obfc # buf_len - 1
    THEN IF obfc % 32 = 31
           THEN [size |-> 5, str |-> <<" ", "|", "|", " ">>, adv |-> 4]
         ELSE IF obfc % 16 = 15
           THEN [size |-> 4, str |-> <<" ", "|", " ">>, adv |-> 3]
         ELSE IF obfc % 4 = 3
           THEN [size |-> 2, str |-> <<" ">>, adv |-> 1]
         ELSE [size |-> 0, str |-> <<>>, adv |-> 0]
    ELSE [size |-> 0, str |-> <<>>, adv |-> 0]

\* One pass of the loop body: the two digits, then the separator.
LoopBody(st, buf, char_signed) ==
  LET buf_len == Cardinality(DOMAIN buf)
      m1 == Snprintf(st.mem, st.obfp, 3,
                     Format02X(CharToInt(buf[st.obfc], char_signed)))
      sep == Separator(st.obfc, buf_len)
      m2 == IF sep.size = 0 THEN m1
            ELSE Snprintf(m1, st.obfp + 2, sep.size, sep.str)
  IN  [mem |-> m2, obfp |-> st.obfp + 2 + sep.adv, obfc |-> st.obfc + 1]

RECURSIVE FormatLoop(_, _, _)
\* for (obfc = 0; obfc < buf_len; obfc++) { ... }; the result is the memory
\* and obfp at the loop's exit.
FormatLoop(st, buf, char_signed) ==
  IF st.obfc < Cardinality(DOMAIN buf)
    THEN FormatLoop(LoopBody(st, buf, char_signed), buf, char_signed)
    ELSE st

RECURSIVE CString(_, _)
\* The string debug() prints for "%s": the bytes from at up to the terminator.
CString(m, at) ==
  IF at \notin 0..(m.size - 1) \/ m.bytes[at] = NUL THEN <<>>
  ELSE <<m.bytes[at]>> \o CString(m, at + 1)

SwitchCallerLevel(level, c, text) ==
  IF c = 16 THEN [level |-> level, tag |-> "SYNC", text |-> text]
  ELSE IF c = 24 THEN [level |-> level, tag |-> "FLUP", text |-> text]
  ELSE IF c = 25 THEN [level |-> level, tag |-> "DRSP", text |-> text]
  ELSE IF c = 27 THEN [level |-> level, tag |-> "ANNC", text |-> text]
  ELSE IF c = 28 THEN [level |-> level, tag |-> "SGNL", text |-> text]
  ELSE [level |-> level, tag |-> "XXXX", text |-> text]
\* switch (buf[0]) { case 0x10: debug(level, "SYNC: ...") ... default:
\* debug(1, "XXXX ...") }: the one call of debug() made.
Switch(level, c, text) ==
  IF c = 16 THEN [level |-> level, tag |-> "SYNC", text |-> text]
  ELSE IF c = 24 THEN [level |-> level, tag |-> "FLUP", text |-> text]
  ELSE IF c = 25 THEN [level |-> level, tag |-> "DRSP", text |-> text]
  ELSE IF c = 27 THEN [level |-> level, tag |-> "ANNC", text |-> text]
  ELSE IF c = 28 THEN [level |-> level, tag |-> "SGNL", text |-> text]
  ELSE [level |-> 1, tag |-> "XXXX", text |-> text]

\* A whole call debug_print_buffer(level, buf, buf_len).  beyond is the byte
\* that lies at buf[0] when buf_len is 0 and the switch reads it.
DebugPrintBufferResult(args, malloc_ok, beyond) ==
  LET buf_len == Cardinality(DOMAIN args.buf)
      done == FormatLoop([mem |-> Malloc(buf_len), obfp |-> 0, obfc |-> 0],
                         args.buf, args.char_signed)
      obf == Store(done.mem, done.obfp, NUL)
      first == IF buf_len > 0 THEN args.buf[0] ELSE beyond
  IN  IF malloc_ok
        THEN [args EXCEPT
                !.called = TRUE, !.malloc_ok = TRUE, !.obf = obf,
                !.reads = (0..(buf_len - 1)) \cup {0},
                !.log = <<Switch(args.level,
                                 CharToInt(first, args.char_signed),
                                 CString(obf, 0))>>]
        ELSE [args EXCEPT !.called = TRUE]

\* The arguments of the one call a behaviour makes, and the build's char.
InitDump ==
  /\ sockets_open_stuff =
       [sockets_open |-> 0,
        sockets |-> [i \in 0..(MAX_OPEN_SOCKETS - 1) |-> Unset],
        oob |-> {}]
  /\ fds = <<>>
  /\ sk = SkIdle
  /\ \E level \in Levels, n \in 0..MaxBufLen, first \in Bytes,
        s \in BOOLEAN :
       /\ n = 0 => first = 0
       /\ dbg = [DbgIdle EXCEPT !.char_signed = s, !.level = level,
                                !.buf = BufferOf(n, first), !.buf_len = n]
  /\ clk = ClkIdle

\* debug_print_buffer with a non-empty buffer and malloc succeeding
DebugPrintBuffer ==
  /\ ~dbg.called
  /\ dbg.buf_len > 0
  /\ dbg' = DebugPrintBufferResult(dbg, TRUE, 0)
  /\ UNCHANGED <<sockets_open_stuff, fds, sk, clk>>

\* debug_print_buffer with buf_len = 0 and malloc succeeding
DebugPrintEmptyBuffer ==
  /\ ~dbg.called
  /\ dbg.buf_len = 0
  /\ \E beyond \in Bytes : dbg' = DebugPrintBufferResult(dbg, TRUE, beyond)
  /\ UNCHANGED <<sockets_open_stuff, fds, sk, clk>>

\* debug_print_buffer with malloc returning NULL
DebugPrintBufferNoMemory ==
  /\ ~dbg.called
  /\ dbg' = DebugPrintBufferResult(dbg, FALSE, 0)
  /\ UNCHANGED <<sockets_open_stuff, fds, sk, clk>>

NextDump ==
  \/ DebugPrintBuffer
  \/ DebugPrintEmptyBuffer
  \/ DebugPrintBufferNoMemory

SpecDump == InitDump /\ [][NextDump]_vars

(***************************************************************************)
(* get_self_clock_id                                                       *)
(***************************************************************************)

\* sll_halen of the modelled interfaces: none, short, EUI-48, 7, EUI-64,
\* 9, and the 20 of InfiniBand.
HaLens == {0, 4, 6, 7, 8, 9, 20}
\* The first byte of a hardware address; byte i of it is first + 17 i, so
\* 170 is AA:BB:CC:DD:EE:FF.
HwFirstBytes == {170, 2}
HwByte(ifa, i) == (ifa.hw + 17 * i) % 256
\* What the stack holds where local_clock_id is placed.
StackBytes == {0, 90}

\* One struct ifaddrs: its name, ifa_addr (NULL, or its sa_family), and for
\* a sockaddr_ll its sll_halen and sll_addr.
Interfaces ==
  [name : {"lo", "eth0"}, addr : {"NULL", "AF_INET"}, halen : {0}, hw : {0}]
    \cup
  [name : {"lo", "eth0"}, addr : {"AF_PACKET"}, halen : HaLens,
   hw : HwFirstBytes]
IfLists == UNION {[1..n -> Interfaces] : n \in 0..MaxIfs}

\* (ifa->ifa_addr) && (ifa->ifa_addr->sa_family == AF_PACKET)
HasLinkLayerAddress(ifa) == ifa.addr # "NULL" /\ ifa.addr = "AF_PACKET"

TakenEvenIfFound(ifa, found) == ifa.name # "lo"
\* (strcmp(ifa->ifa_name, "lo") != 0) && (found == 0)
Taken(ifa, found) == ifa.name # "lo" /\ found = 0

\* memcpy(local_clock_id, &s->sll_addr, len): len bytes, whatever len is.
Memcpy(st, ifa, len) ==
  [st EXCEPT
     !.local_clock_id =
       [i \in 0..7 |-> IF i < len THEN HwByte(ifa, i) ELSE @[i]],
     !.written = @ \cup {i \in 0..7 : i < len},
     !.oob = @ \cup {i \in 0..(len - 1) : i > 7}]

\* The body of for (ifa = ifaddr; ifa != NULL; ifa = ifa->ifa_next)
ScanBody(st, ifa) ==
  IF HasLinkLayerAddress(ifa) /\ Taken(ifa, st.found)
    THEN [Memcpy(st, ifa, ifa.halen) EXCEPT !.len = ifa.halen, !.found = 1]
    ELSE st

RECURSIVE Scan(_, _)
Scan(st, ifs) ==
  IF ifs # <<>>
    THEN Scan(ScanBody(st, Head(ifs)), Tail(ifs))
    ELSE st

\* local_clock_id[to] = local_clock_id[from]
CopyByte(st, to, from) ==
  [st EXCEPT !.local_clock_id[to] = st.local_clock_id[from],
             !.written = IF from \in st.written THEN @ \cup {to}
                         ELSE @ \ {to}]

\* local_clock_id[to] = byte
SetByte(st, to, byte) ==
  [st EXCEPT !.local_clock_id[to] = byte, !.written = @ \cup {to}]

\* if (len == 6) { [7] = [5]; [6] = [4]; [5] = [3]; [3] = 0xFF; [4] = 0xFE; }
Doctor(st) ==
  IF st.len = 6
    THEN SetByte(SetByte(CopyByte(CopyByte(CopyByte(st, 7, 5), 6, 4), 5, 3),
                         3, 255), 4, 254)
    ELSE st

\* A whole call get_self_clock_id() in which getifaddrs succeeds.  fill is
\* the byte the stack holds in local_clock_id before anything is stored.
GetSelfClockIdResult(ifs, fill) ==
  LET st == Doctor(Scan([len |-> 0, found |-> 0, oob |-> {}, written |-> {},
                         local_clock_id |-> [i \in 0..7 |-> fill]], ifs))
  IN  [called |-> TRUE, ifs |-> ifs, outcome |-> "returned",
       len |-> st.len, local_clock_id |-> st.local_clock_id,
       written |-> st.written, oob |-> st.oob,
       result |-> [k \in 1..8 |-> st.local_clock_id[k - 1]],
       indeterminate |-> (0..7) \ st.written]

\* The interfaces the host has when the one call of a behaviour is made.
InitClock ==
  /\ sockets_open_stuff =
       [sockets_open |-> 0,
        sockets |-> [i \in 0..(MAX_OPEN_SOCKETS - 1) |-> Unset],
        oob |-> {}]
  /\ fds = <<>>
  /\ sk = SkIdle
  /\ dbg = DbgIdle
  /\ \E ifs \in IfLists : clk = [ClkIdle EXCEPT !.ifs = ifs]

\* get_self_clock_id with getifaddrs succeeding
GetSelfClockId ==
  /\ ~clk.called
  /\ \E fill \in StackBytes : clk' = GetSelfClockIdResult(clk.ifs, fill)
  /\ UNCHANGED <<sockets_open_stuff, fds, sk, dbg>>

\* getifaddrs returns -1: status = (-1 == -1) = 1, and die() is called.
GetIfAddrsFails ==
  /\ ~clk.called
  /\ clk' = [clk EXCEPT !.called = TRUE, !.outcome = "died"]
  /\ UNCHANGED <<sockets_open_stuff, fds, sk, dbg>>

NextClock ==
  \/ GetSelfClockId
  \/ GetIfAddrsFails

SpecClock == InitClock /\ [][NextClock]_vars

(***************************************************************************)
(* Claims about open_sockets_at_port                                       *)
(***************************************************************************)

\* The descriptor a record names, as the kernel holds it.
FdOf(number) == fds[number - 2]
IsFd(number) == number - 2 \in 1..Len(fds)
AllStepsOk(f) ==
  f.bound /\ f.timestamping /\ (f.family = "AF_INET6" => f.v6only)
InBounds == 0..(MAX_OPEN_SOCKETS - 1)
Records == {i \in InBounds : sockets_open_stuff.sockets[i] # Unset}
Returned == sk.pc = "idle" /\ sk.calls > 0

\* C1: when open_sockets_at_port(P, bundle) returns, having started from an
\* empty bundle, sockets_open is the number of entries a socket was created
\* for, and every record has port P and a valid descriptor that is bound and
\* non-blocking.
C1_CountPortNonBlocking ==
  (Returned /\ sk.start = 0) =>
    /\ sockets_open_stuff.sockets_open = sk.created
    /\ sockets_open_stuff.oob = {}
    /\ Cardinality(Records) = sk.created
    /\ \A i \in Records :
         LET r == sockets_open_stuff.sockets[i]
         IN  /\ r.port = sk.port
             /\ IsFd(r.number)
             /\ FdOf(r.number).bound
             /\ FdOf(r.number).port = sk.port
             /\ FdOf(r.number).nonblock

C3_CountWithinCapacity ==
  /\ sockets_open_stuff.sockets_open <= MAX_OPEN_SOCKETS
  /\ sockets_open_stuff.oob = {}

(***************************************************************************)
(* Claims about debug_print_buffer                                         *)
(***************************************************************************)

Logged == dbg.called /\ dbg.malloc_ok
Text == dbg.log[1].text
IsSeparatorChar(c) == c \in {" ", "|"}
\* The text with every character that is not part of a separator as "H".
Shape(text) ==
  [k \in 1..Len(text) |-> IF IsSeparatorChar(text[k]) THEN text[k] ELSE "H"]
IsDigitChar(c) == ~IsSeparatorChar(c)
\* The text without its separators.
Digits(text) == SelectSeq(text, IsDigitChar)

\* The separator the rule puts after byte i of n.
RuleSeparator(i, n) ==
  IF i = n - 1 THEN <<>>
  ELSE IF i % 32 = 31 THEN <<" ", "|", "|", " ">>
  ELSE IF i % 16 = 15 THEN <<" ", "|", " ">>
  ELSE IF i % 4 = 3 THEN <<" ">>
  ELSE <<>>

RECURSIVE RuleShape(_, _)
RuleShape(i, n) ==
  IF i >= n THEN <<>>
  ELSE <<"H", "H">> \o RuleSeparator(i, n) \o RuleShape(i + 1, n)

\* C6: after the two characters of byte i the text has " || " if
\* i mod 32 = 31, else " | " if i mod 16 = 15, else " " if i mod 4 = 3, else
\* nothing, and nothing at all after the final byte.
C6_SeparatorPlacement ==
  (Logged /\ dbg.buf_len >= 1) => Shape(Text) = RuleShape(0, dbg.buf_len)

\* A buffer long enough for all three separators, " || " included.
C6_Witness ==
  /\ Logged
  /\ dbg.buf_len >= 33
  /\ \E k \in 1..(Len(Text) - 1) : Text[k] = "|" /\ Text[k + 1] = "|"

\* C7: every byte, whatever its value and index, is rendered as the two
\* uppercase hexadecimal digits of its own value.
C7_TwoHexDigitsOfTheByte ==
  (Logged /\ dbg.buf_len >= 1) =>
    /\ Len(Digits(Text)) = 2 * dbg.buf_len
    /\ \A i \in 0..(dbg.buf_len - 1) :
         /\ Digits(Text)[2 * i + 1] = HexChars[(dbg.buf[i] \div 16) + 1]
         /\ Digits(Text)[2 * i + 2] = HexChars[(dbg.buf[i] % 16) + 1]

\* The tag of the claim for a first byte.
RuleTag(b) ==
  IF b = 16 THEN "SYNC"
  ELSE IF b = 24 THEN "FLUP"
  ELSE IF b = 25 THEN "DRSP"
  ELSE IF b = 27 THEN "ANNC"
  ELSE IF b = 28 THEN "SGNL"
  ELSE "XXXX"
RuleLevel(b, level) == IF RuleTag(b) = "XXXX" THEN 1 ELSE level
OneLineAsRuled ==
  /\ Len(dbg.log) = 1
  /\ dbg.log[1].tag = RuleTag(dbg.buf[0])
  /\ dbg.log[1].level = RuleLevel(dbg.buf[0], dbg.level)

\* C8: a call that formats its buffer logs exactly one line: first byte
\* 0x10, 0x18, 0x19, 0x1B, 0x1C gives the tag SYNC, FLUP, DRSP, ANNC, SGNL at
\* the caller's level, and any other first byte gives XXXX at severity 1,
\* whatever the caller's level.
C8_TagAndSeverity ==
  (Logged /\ dbg.buf_len >= 1) => OneLineAsRuled

\* An unrecognised first byte, logged at 1 though the caller's level is 2.
C8_Witness ==
  /\ Logged
  /\ dbg.buf_len >= 1
  /\ dbg.buf[0] = 153
  /\ dbg.level = 2
  /\ dbg.log[1].tag = "XXXX"
  /\ dbg.log[1].level = 1

\* C10: for every buf_len, 0 included, only buf[0..buf_len-1] is read, and
\* the text with its terminator stays within the buf_len * 4 + 1 bytes
\* allocated.
C10_ReadsAndWritesInBounds ==
  dbg.called =>
    /\ dbg.reads \subseteq 0..(dbg.buf_len - 1)
    /\ dbg.obf.oob = {}
    /\ Logged => Len(Text) + 1 <= dbg.buf_len * 4 + 1

(***************************************************************************)
(* Claims about get_self_clock_id                                          *)
(***************************************************************************)

\* An interface with a link-layer hardware address that is not the loopback.
Eligible(ifa) == ifa.addr = "AF_PACKET" /\ ifa.name # "lo"
EligibleAt == {k \in 1..Len(clk.ifs) : Eligible(clk.ifs[k])}
FirstEligible ==
  clk.ifs[CHOOSE k \in EligibleAt : \A j \in EligibleAt : k <= j]
ClockReturned == clk.called /\ clk.outcome = "returned"

\* C4: the result comes from the first interface, in enumeration order, that
\* has a link-layer address and is not the loopback; if its address has 6
\* bytes b0..b5 the result is b0 b1 b2 FF FE b3 b4 b5, and if it has 8 the
\* result is those 8 bytes.
C4_FirstEligibleEui64 ==
  (ClockReturned /\ EligibleAt # {}) =>
    LET f == FirstEligible
    IN  /\ clk.len = f.halen
        /\ f.halen = 6 =>
             clk.result = <<HwByte(f, 0), HwByte(f, 1), HwByte(f, 2), 255, 254,
                            HwByte(f, 3), HwByte(f, 4), HwByte(f, 5)>>
        /\ f.halen = 8 => clk.result = [k \in 1..8 |-> HwByte(f, k - 1)]

\* Two eligible interfaces with different addresses, the first AA:BB:CC:DD:EE:FF.
C4_Witness ==
  /\ ClockReturned
  /\ Len(clk.ifs) >= 2
  /\ Eligible(clk.ifs[1]) /\ clk.ifs[1].halen = 6 /\ clk.ifs[1].hw = 170
  /\ Eligible(clk.ifs[2]) /\ clk.ifs[2].hw # 170
  /\ clk.result = <<170, 187, 204, 255, 254, 221, 238, 255>>

\* C5: when no interface is eligible the outcome is an explicit error, never
\* an identifier built from uninitialized data.
C5_NoEligibleIsAnError ==
  (clk.called /\ clk.outcome # "died" /\ EligibleAt = {}) =>
    /\ clk.outcome = "error"
    /\ clk.indeterminate = {}

\* C9: whatever length the selected interface reports, only the 8 bytes of
\* local_clock_id are written and each of the 8 returned bytes was written.
C9_WritesInBoundsAllBytesSet ==
  (ClockReturned /\ EligibleAt # {}) =>
    /\ clk.oob = {}
    /\ clk.indeterminate = {}

====
